---- MODULE Spec2Model ----
(***************************************************************************)
(* Model of prefect_snowflake/database.py: the connect-parameter           *)
(* resolution of SnowflakeConnector, the submit / poll / fetch protocol of *)
(* _async_execute_operation, fetch_one, fetch_many, fetch_all, execute,    *)
(* snowflake_query, snowflake_query_sync, and the shared-session loop of   *)
(* snowflake_multiquery.                                                   *)
(***************************************************************************)
EXTENDS Integers, Sequences, FiniteSets, TLC

VARIABLES
    connector,       \* the SnowflakeConnector block: database, warehouse, schema_, credentials
    connect_params,  \* outcome of the last _get_connect_params evaluation
    kind,            \* per call: which top-level function is running
    pc,              \* per call: position in the function body
    queries,         \* per call: the caller-owned list object handed to the call
    supplied,        \* per call: contents of that list when the current invocation began
    as_transaction,  \* per call: argument as_transaction
    return_transaction_control_results, \* per call: argument of the same name
    i,               \* per call: index of the loop `for query in queries`
    results,         \* per call: the local list `results`
    returned,        \* per call: value handed back to the caller
    outcome,         \* per call: how the body was left (none, return, error, cancelled)
    failure,         \* per call: where the first error was raised
    connection,      \* per call: opens / closes of the connection of this invocation
    cursor,          \* per call: opens / closes of the cursor of this invocation
    submitted,       \* per call: statements handed to the cursor, in order
    status,          \* per call: server-side status of each submitted statement
    poll,            \* per call: counters of the poll loop for the current query id
    server,          \* per call: transactional state of the server session
    invocations      \* per call: number of invocations made with the same list object

vars == <<connector, connect_params, kind, pc, queries, supplied, as_transaction,
          return_transaction_control_results, i, results, returned, outcome,
          failure, connection, cursor, submitted, status, poll, server,
          invocations>>

callVars == <<kind, pc, queries, supplied, as_transaction,
              return_transaction_control_results, i, results, returned, outcome,
              failure, connection, cursor, submitted, status, poll, server,
              invocations>>

(***************************************************************************)
(* Bounds of the model.                                                    *)
(***************************************************************************)
MaxOps == 3          \* longest caller-supplied list of operations
MaxPolls == 2        \* most status checks that see "running" for one query id
MaxInvocations == 2  \* most invocations made with one list object

(***************************************************************************)
(* Program constants.                                                      *)
(***************************************************************************)
BEGIN_TRANSACTION_STATEMENT == "BEGIN TRANSACTION"
END_TRANSACTION_STATEMENT == "COMMIT"

(***************************************************************************)
(* Connect-parameter resolution.  Every value is a record with a form:     *)
(* "none" (Python None), "plain" (an ordinary str), "secret" (a pydantic   *)
(* SecretStr / SecretBytes handle) or "der" (the DER bytes produced by     *)
(* resolve_private_key).                                                   *)
(***************************************************************************)
None == [form |-> "none", v |-> ""]
Plain(s) == [form |-> "plain", v |-> s]
Secret(s) == [form |-> "secret", v |-> s]
Der(s) == [form |-> "der", v |-> s]

\* SecretStr.get_secret_value(): the handle gives up its content as plain text
get_secret_value(x) == Plain(x.v)

\* credentials.resolve_private_key(): the DER form of the private key, or None
resolve_private_key(credentials) ==
    IF credentials["private_key"] = None
    THEN None
    ELSE Der(credentials["private_key"].v)

EmptyParams == [k \in {} |-> None]

\* {**a, **b}: the keys of both, b winning
Merge(a, b) ==
    [k \in DOMAIN a \cup DOMAIN b |-> IF k \in DOMAIN b THEN b[k] ELSE a[k]]

\* lines 54-61: the flat mapping of defaults and credential fields
RawParams(c) ==
    Merge([database |-> c.database,
           warehouse |-> c.warehouse,
           schema |-> c.schema_,
           application |-> Plain("Prefect_Snowflake_Collection")],
          c.credentials)

\* variant of FilterUnset: only the unset secret fields are filtered out
FilterUnset_SecretsOnly(m) ==
    [k \in {p \in DOMAIN m : ~(p \in {"password", "private_key", "token"} /\ m[p] = None)}
        |-> m[k]]

\* lines 64-66: filter out unset values
FilterUnset(m) == [k \in {p \in DOMAIN m : m[p] # None} |-> m[k]]

SecretParams == {"password", "private_key", "token"}

\* variant of RevealSecrets: only the password is revealed
RevealSecrets_PasswordOnly(m) ==
    [k \in DOMAIN m |-> IF k = "password" THEN get_secret_value(m[k]) ELSE m[k]]

\* lines 68-70: reveal the secrets that are present
RevealSecrets(m) ==
    [k \in DOMAIN m |-> IF k \in SecretParams THEN get_secret_value(m[k]) ELSE m[k]]

\* variant of SubstituteOkta: the endpoint is read with get, the field stays
SubstituteOkta_KeepsField(m) ==
    IF "authenticator" \in DOMAIN m /\ m["authenticator"] = Plain("okta_endpoint")
    THEN IF "okta_endpoint" \in DOMAIN m
         THEN [ok |-> TRUE,
               params |-> [k \in DOMAIN m |->
                              IF k = "authenticator" THEN m["okta_endpoint"] ELSE m[k]]]
         ELSE [ok |-> FALSE, params |-> EmptyParams]
    ELSE [ok |-> TRUE, params |-> m]

\* lines 73-74: authenticator "okta_endpoint" is replaced by the endpoint itself;
\* dict.pop without a default raises KeyError when the key is absent
SubstituteOkta(m) ==
    IF "authenticator" \in DOMAIN m /\ m["authenticator"] = Plain("okta_endpoint")
    THEN IF "okta_endpoint" \in DOMAIN m
         THEN [ok |-> TRUE,
               params |-> [k \in DOMAIN m \ {"okta_endpoint"} |->
                              IF k = "authenticator" THEN m["okta_endpoint"] ELSE m[k]]]
         ELSE [ok |-> FALSE, params |-> EmptyParams]
    ELSE [ok |-> TRUE, params |-> m]

\* variant of ApplyPrivateKey: the password stays next to the private key
ApplyPrivateKey_KeepsPassword(m, key) ==
    IF key # None
    THEN [k \in DOMAIN m \cup {"private_key"} |->
              IF k = "private_key" THEN key ELSE m[k]]
    ELSE m

\* lines 76-79: a resolved private key replaces private_key and removes password
ApplyPrivateKey(m, key) ==
    IF key # None
    THEN [k \in (DOMAIN m \cup {"private_key"}) \ {"password"} |->
              IF k = "private_key" THEN key ELSE m[k]]
    ELSE m

\* SnowflakeConnector._get_connect_params
get_connect_params(c) ==
    LET okta == SubstituteOkta(RevealSecrets(FilterUnset(RawParams(c))))
    IN  IF okta.ok
        THEN [ok |-> TRUE,
              params |-> ApplyPrivateKey(okta.params, resolve_private_key(c.credentials))]
        ELSE okta

NotResolved == [ok |-> FALSE, params |-> [k \in {"unresolved"} |-> None]]

\* the credential inputs the resolution is checked on
Optional(x) == {None, x}

CredentialInputs ==
    [account : {Plain("account")},
     user : {Plain("user")},
     password : Optional(Secret("password")),
     private_key : Optional(Secret("pem")),
     token : Optional(Secret("token")),
     authenticator : {None, Plain("okta_endpoint"), Plain("snowflake"), Plain("oauth")},
     okta_endpoint : Optional(Plain("https://okta.example")),
     role : Optional(Plain("role"))]

ConnectorInputs ==
    [database : {Plain("database")},
     warehouse : {Plain("warehouse")},
     schema_ : {Plain("schema")},
     credentials : CredentialInputs]

(***************************************************************************)
(* Top-level calls.  A call is one invocation of a task or block method;   *)
(* the same list object may be handed to a later invocation.               *)
(***************************************************************************)
Calls == {"call1", "call2"}

AsyncKinds == {"fetch_one", "fetch_many", "fetch_all", "snowflake_query",
               "snowflake_multiquery"}
SyncKinds == {"execute", "snowflake_query_sync"}
Kinds == AsyncKinds \cup SyncKinds

Operations == {"q1", "q2"}

SeqsUpTo(S, n) == UNION {[1..m -> S] : m \in 0..n}

NoFailure == [at |-> 0, phase |-> "none"]
NoResult == [given |-> FALSE, value |-> <<>>]
\* no connection object yet
NoSession == <<>>

\* the connection object a call of snowflake.connector.connect hands out
\* (line 121): a new one for every call of get_connection
NewConnection(c, n) == <<c, n>>

Unopened == [opens |-> 0, closes |-> 0, session |-> NoSession]
\* query_id and the counters of the poll loop run for it
NewPoll(qid) ==
    [query_id |-> qid, checks |-> 0, sleeps |-> 0, running |-> 0, loads |-> 0,
     fetches |-> 0]
NewSession == [in_txn |-> FALSE, pending |-> {}, committed |-> {}]

\* the rows the cursor hands out for query id n of call c
ResultSet(c, n, stmt, shape) ==
    [call |-> c, qid |-> n, stmt |-> stmt, shape |-> shape,
     session |-> cursor[c].session]

\* which fetch the caller of the cursor performs
FetchShape(k) ==
    CASE k = "fetch_one" -> "fetchone"
      [] k = "fetch_many" -> "fetchmany"
      [] OTHER -> "fetchall"

\* effect of a statement that finished on the server session (autocommit is on:
\* outside BEGIN ... COMMIT every statement commits by itself)
ApplyStatement(s, stmt, n) ==
    CASE stmt = BEGIN_TRANSACTION_STATEMENT -> [s EXCEPT !.in_txn = TRUE]
      [] stmt = END_TRANSACTION_STATEMENT ->
            [in_txn |-> FALSE, pending |-> {}, committed |-> s.committed \cup s.pending]
      [] OTHER ->
            IF s.in_txn
            THEN [s EXCEPT !.pending = @ \cup {n}]
            ELSE [s EXCEPT !.committed = @ \cup {n}]

\* the session ends: an open transaction is rolled back by the server
EndSession(s) == [s EXCEPT !.in_txn = FALSE, !.pending = {}]

\* variant of Bracket: BEGIN is prepended, COMMIT is not appended
Bracket_NoCommit(qs) == <<BEGIN_TRANSACTION_STATEMENT>> \o qs

\* lines 410-412: the list the caller passed is extended in place
Bracket(qs) == <<BEGIN_TRANSACTION_STATEMENT>> \o qs \o <<END_TRANSACTION_STATEMENT>>

\* variant of ReturnValue: results[1:], the result set of COMMIT stays
ReturnValue_KeepsCommit(k, tx, ctl, rs) ==
    IF k = "snowflake_multiquery" /\ tx /\ ~ctl
    THEN SubSeq(rs, 2, Len(rs))
    ELSE rs

\* variant of ReturnValue: the control results are cut off whatever the flag
ReturnValue_IgnoresFlag(k, tx, ctl, rs) ==
    IF k = "snowflake_multiquery" /\ tx
    THEN SubSeq(rs, 2, Len(rs) - 1)
    ELSE rs

\* lines 428-431: results[1:-1] when the control results are cut off
ReturnValue(k, tx, ctl, rs) ==
    IF k = "snowflake_multiquery" /\ tx /\ ~ctl
    THEN SubSeq(rs, 2, Len(rs) - 1)
    ELSE rs

\* variant of Raise: an error of a submission or status check is recorded
\* but the loop goes on
Raise_Continue(c, n, phase, next) ==
    /\ outcome' = [outcome EXCEPT ![c] = "error"]
    /\ failure' = [failure EXCEPT ![c] = [at |-> n, phase |-> phase]]
    /\ pc' = [pc EXCEPT ![c] = IF phase \in {"submit", "status"} THEN "submit" ELSE next]

\* variant of Raise: the exception leaves the call without releasing anything
Raise_NoRelease(c, n, phase, next) ==
    /\ outcome' = [outcome EXCEPT ![c] = "error"]
    /\ failure' = [failure EXCEPT ![c] = [at |-> n, phase |-> phase]]
    /\ pc' = [pc EXCEPT ![c] = "done"]

\* variant of Raise: an error of the status check is recorded but the loop
\* is left as if the query had finished
Raise_StatusSwallowed(c, n, phase, next) ==
    /\ outcome' = [outcome EXCEPT ![c] = "error"]
    /\ failure' = [failure EXCEPT ![c] = [at |-> n, phase |-> phase]]
    /\ pc' = [pc EXCEPT ![c] = IF phase = "status" THEN "load" ELSE next]

\* the body is left with an exception raised at statement n in the given phase
Raise(c, n, phase, next) ==
    /\ outcome' = [outcome EXCEPT ![c] = "error"]
    /\ failure' = [failure EXCEPT ![c] = [at |-> n, phase |-> phase]]
    /\ pc' = [pc EXCEPT ![c] = next]

\* variant of AfterStatement: a new cursor is opened for the next statement
AfterStatement_Reopens(qs, n) == IF n < Len(qs) THEN "connected" ELSE "exit_cursor"

\* where the loop `for query in queries` goes after statement n
AfterStatement(qs, n) == IF n < Len(qs) THEN "submit" ELSE "exit_cursor"

(***************************************************************************)
(* Initial states: the arguments of each call.                             *)
(***************************************************************************)
CallConfigs ==
    {[kind |-> k, queries |-> <<"q1">>, as_transaction |-> FALSE, ctl |-> FALSE] :
        k \in Kinds \ {"snowflake_multiquery"}}
    \cup
    [kind : {"snowflake_multiquery"}, queries : SeqsUpTo(Operations, MaxOps),
     as_transaction : BOOLEAN, ctl : BOOLEAN]

\* a connector that resolves, and one whose resolution raises
RuntimeConnectors ==
    {cn \in ConnectorInputs :
        /\ cn.credentials.password # None
        /\ cn.credentials.private_key = None
        /\ cn.credentials.token = None
        /\ cn.credentials.role = None
        /\ cn.credentials.okta_endpoint = None
        /\ cn.credentials.authenticator \in {None, Plain("okta_endpoint")}}

InitCalls(active) ==
    /\ connector \in RuntimeConnectors
    /\ connect_params = NotResolved
    /\ \E cfg \in [Calls -> CallConfigs] :
          /\ \A c \in Calls \ active : cfg[c] = CHOOSE x \in CallConfigs : TRUE
          /\ kind = [c \in Calls |-> cfg[c].kind]
          /\ queries = [c \in Calls |-> cfg[c].queries]
          /\ supplied = [c \in Calls |-> cfg[c].queries]
          /\ as_transaction = [c \in Calls |-> cfg[c].as_transaction]
          /\ return_transaction_control_results = [c \in Calls |-> cfg[c].ctl]
    /\ pc = [c \in Calls |-> IF c \in active THEN "start" ELSE "absent"]
    /\ i = [c \in Calls |-> 1]
    /\ results = [c \in Calls |-> <<>>]
    /\ returned = [c \in Calls |-> NoResult]
    /\ outcome = [c \in Calls |-> "none"]
    /\ failure = [c \in Calls |-> NoFailure]
    /\ connection = [c \in Calls |-> Unopened]
    /\ cursor = [c \in Calls |-> Unopened]
    /\ submitted = [c \in Calls |-> <<>>]
    /\ status = [c \in Calls |-> <<>>]
    /\ poll = [c \in Calls |-> NewPoll(0)]
    /\ server = [c \in Calls |-> NewSession]
    /\ invocations = [c \in Calls |-> 1]

Init == InitCalls({"call1"})

(***************************************************************************)
(* Steps of a call.                                                        *)
(***************************************************************************)

\* variant of GetConnection: the connection is kept on the connector block
\* and handed to every call
GetConnection_Cached(c) ==
    /\ pc[c] = "start"
    /\ connect_params' = get_connect_params(connector)
    /\ \/ /\ connect_params'.ok
          /\ connection' = [connection EXCEPT
                ![c].opens = @ + 1,
                ![c].session = NewConnection("cached", 0)]
          /\ pc' = [pc EXCEPT ![c] = "connected"]
          /\ UNCHANGED <<outcome, failure>>
       \/ /\ Raise(c, 0, "connect", "done")
          /\ UNCHANGED connection
    /\ UNCHANGED <<connector, kind, queries, supplied, as_transaction,
                   return_transaction_control_results, i, results, returned,
                   cursor, submitted, status, poll, server, invocations>>

\* get_connection (lines 119-122) as entered by `with ... as connection`
\* (lines 136, 277, 336, 409, 484): the parameters are resolved, then connect
\* either hands out a connection or raises before the with block is entered
GetConnection(c) ==
    /\ pc[c] = "start"
    /\ connect_params' = get_connect_params(connector)
    /\ \/ /\ connect_params'.ok
          /\ connection' = [connection EXCEPT
                ![c].opens = @ + 1,
                ![c].session = NewConnection(c, invocations[c])]
          /\ pc' = [pc EXCEPT ![c] = "connected"]
          /\ UNCHANGED <<outcome, failure>>
       \/ /\ Raise(c, 0, "connect", "done")
          /\ UNCHANGED connection
    /\ UNCHANGED <<connector, kind, queries, supplied, as_transaction,
                   return_transaction_control_results, i, results, returned,
                   cursor, submitted, status, poll, server, invocations>>

\* lines 410-414 (and 137, 278, 337, 485): snowflake_multiquery brackets the
\* caller's list in place, then the cursor is created or its creation raises
OpenCursor(c) ==
    /\ pc[c] = "connected"
    /\ queries' = [queries EXCEPT ![c] =
                      IF kind[c] = "snowflake_multiquery" /\ as_transaction[c]
                      THEN Bracket(@) ELSE @]
    /\ \/ /\ cursor' = [cursor EXCEPT ![c].opens = @ + 1,
                                      ![c].session = connection[c].session]
          /\ IF Len(queries'[c]) = 0
             THEN /\ pc' = [pc EXCEPT ![c] = "exit_cursor"]
                  /\ outcome' = [outcome EXCEPT ![c] = "return"]
             ELSE /\ pc' = [pc EXCEPT ![c] =
                              IF kind[c] \in SyncKinds THEN "execute" ELSE "submit"]
                  /\ UNCHANGED outcome
          /\ UNCHANGED failure
       \/ /\ Raise(c, 0, "cursor", "exit_connection")
          /\ UNCHANGED cursor
    /\ UNCHANGED <<connector, connect_params, kind, supplied, as_transaction,
                   return_transaction_control_results, i, results, returned,
                   connection, submitted, status, poll, server, invocations>>

\* cursor.execute_async (lines 138-141, 338-339, 417-418): the statement is
\* handed to the server and a query id comes back, or the submission raises
Submit(c) ==
    /\ pc[c] = "submit"
    /\ submitted' = [submitted EXCEPT ![c] = Append(@, queries[c][i[c]])]
    /\ \/ /\ status' = [status EXCEPT ![c] = Append(@, "running")]
          /\ poll' = [poll EXCEPT ![c] = NewPoll(Len(submitted'[c]))]
          /\ pc' = [pc EXCEPT ![c] = "check"]
          /\ UNCHANGED <<outcome, failure>>
       \/ /\ status' = [status EXCEPT ![c] = Append(@, "rejected")]
          /\ Raise(c, i[c], "submit", "exit_cursor")
          /\ UNCHANGED poll
    /\ UNCHANGED <<connector, connect_params, kind, queries, supplied, as_transaction,
                   return_transaction_control_results, i, results, returned,
                   connection, cursor, server, invocations>>

\* the loop head (lines 142-145, 340-343, 419-422): one status check for the
\* current query id; "running" starts a sleep, a failed query raises
CheckStatus(c) ==
    /\ pc[c] = "check"
    /\ LET st == status[c][poll[c].query_id]
       IN  \/ /\ st = "running"
              /\ poll[c].running < MaxPolls
              /\ poll' = [poll EXCEPT ![c].checks = @ + 1, ![c].running = @ + 1]
              /\ pc' = [pc EXCEPT ![c] = "sleep"]
              /\ UNCHANGED <<outcome, failure>>
           \/ /\ st = "success"
              /\ poll' = [poll EXCEPT ![c].checks = @ + 1]
              /\ pc' = [pc EXCEPT ![c] = "load"]
              /\ UNCHANGED <<outcome, failure>>
           \/ /\ st = "failed"
              /\ poll' = [poll EXCEPT ![c].checks = @ + 1]
              /\ Raise(c, i[c], "status", "exit_cursor")
    /\ UNCHANGED <<connector, connect_params, kind, queries, supplied, as_transaction,
                   return_transaction_control_results, i, results, returned,
                   connection, cursor, submitted, status, server, invocations>>

\* variant of WakeUp: after the sleep the results are loaded without a new check
WakeUp_NoRecheck(c) ==
    /\ pc[c] = "sleep"
    /\ poll' = [poll EXCEPT ![c].sleeps = @ + 1]
    /\ pc' = [pc EXCEPT ![c] = "load"]
    /\ UNCHANGED <<connector, connect_params, kind, queries, supplied, as_transaction,
                   return_transaction_control_results, i, results, returned, outcome,
                   failure, connection, cursor, submitted, status, server,
                   invocations>>

\* variant of WakeUp: after one sleep the loop moves on to the next statement
\* without waiting for the running one
WakeUp_SubmitsNext(c) ==
    /\ pc[c] = "sleep"
    /\ poll' = [poll EXCEPT ![c].sleeps = @ + 1]
    /\ pc' = [pc EXCEPT ![c] = IF i[c] < Len(queries[c]) THEN "submit" ELSE "check"]
    /\ i' = [i EXCEPT ![c] = IF @ < Len(queries[c]) THEN @ + 1 ELSE @]
    /\ UNCHANGED <<connector, connect_params, kind, queries, supplied, as_transaction,
                   return_transaction_control_results, results, returned, outcome,
                   failure, connection, cursor, submitted, status, server,
                   invocations>>

\* variant of WakeUp: after the second sleep the loop gives up with a timeout
WakeUp_GivesUp(c) ==
    /\ pc[c] = "sleep"
    /\ poll' = [poll EXCEPT ![c].sleeps = @ + 1]
    /\ IF poll[c].sleeps >= 1
       THEN Raise(c, i[c], "timeout", "exit_cursor")
       ELSE /\ pc' = [pc EXCEPT ![c] = "check"]
            /\ UNCHANGED <<outcome, failure>>
    /\ UNCHANGED <<connector, connect_params, kind, queries, supplied, as_transaction,
                   return_transaction_control_results, i, results, returned,
                   connection, cursor, submitted, status, server,
                   invocations>>

\* asyncio.sleep returns (lines 145, 343, 422): one suspension is over and
\* control is back at the loop head
WakeUp(c) ==
    /\ pc[c] = "sleep"
    /\ poll' = [poll EXCEPT ![c].sleeps = @ + 1]
    /\ pc' = [pc EXCEPT ![c] = "check"]
    /\ UNCHANGED <<connector, connect_params, kind, queries, supplied, as_transaction,
                   return_transaction_control_results, i, results, returned, outcome,
                   failure, connection, cursor, submitted, status, server,
                   invocations>>

\* variant of Cancel: the cancellation is swallowed and the loop polls on
Cancel_Swallowed(c) ==
    /\ pc[c] = "sleep"
    /\ outcome' = [outcome EXCEPT ![c] = "cancelled"]
    /\ pc' = [pc EXCEPT ![c] = "check"]
    /\ UNCHANGED <<connector, connect_params, kind, queries, supplied, as_transaction,
                   return_transaction_control_results, i, results, returned,
                   failure, connection, cursor, submitted, status, poll, server,
                   invocations>>

\* the task is cancelled while suspended in asyncio.sleep: CancelledError is
\* raised at the await and leaves the with blocks
Cancel(c) ==
    /\ pc[c] = "sleep"
    /\ outcome' = [outcome EXCEPT ![c] = "cancelled"]
    /\ pc' = [pc EXCEPT ![c] = "exit_cursor"]
    /\ UNCHANGED <<connector, connect_params, kind, queries, supplied, as_transaction,
                   return_transaction_control_results, i, results, returned,
                   failure, connection, cursor, submitted, status, poll, server,
                   invocations>>

\* the server finishes a statement submitted with execute_async while the
\* client is free (lines 138, 338, 417): it succeeds with its effect, or fails
ServerComplete(c) ==
    /\ connection[c].opens > connection[c].closes
    /\ \E n \in 1..Len(status[c]) :
          /\ status[c][n] = "running"
          /\ \/ /\ status' = [status EXCEPT ![c][n] = "success"]
                /\ server' = [server EXCEPT ![c] = ApplyStatement(@, submitted[c][n], n)]
             \/ /\ status' = [status EXCEPT ![c][n] = "failed"]
                /\ UNCHANGED server
    /\ UNCHANGED <<connector, connect_params, kind, pc, queries, supplied, as_transaction,
                   return_transaction_control_results, i, results, returned, outcome,
                   failure, connection, cursor, submitted, poll, invocations>>

\* cursor.get_results_from_sfqid (lines 146, 344, 423); in
\* _async_execute_operation the cursor is then yielded to the caller (line 147)
LoadResults(c) ==
    /\ pc[c] = "load"
    /\ \/ /\ poll' = [poll EXCEPT ![c].loads = @ + 1]
          /\ pc' = [pc EXCEPT ![c] = "fetch"]
          /\ UNCHANGED <<outcome, failure>>
       \/ /\ Raise(c, i[c], "load", "exit_cursor")
          /\ UNCHANGED poll
    /\ UNCHANGED <<connector, connect_params, kind, queries, supplied, as_transaction,
                   return_transaction_control_results, i, results, returned,
                   connection, cursor, submitted, status, server, invocations>>

\* cursor.fetchone / fetchmany / fetchall (lines 182, 220, 256, 345, 424-425,
\* 487): the rows of the loaded query are appended to results, and the loop
\* goes on to the next statement or the body ends
Fetch(c) ==
    /\ pc[c] = "fetch"
    /\ \/ /\ poll' = [poll EXCEPT ![c].fetches = @ + 1]
          /\ results' = [results EXCEPT ![c] =
                Append(@, ResultSet(c, poll[c].query_id, submitted[c][poll[c].query_id],
                                    FetchShape(kind[c])))]
          /\ i' = [i EXCEPT ![c] = @ + 1]
          /\ pc' = [pc EXCEPT ![c] = AfterStatement(queries[c], i[c])]
          /\ outcome' = [outcome EXCEPT ![c] =
                IF AfterStatement(queries[c], i[c]) = "exit_cursor" THEN "return" ELSE @]
          /\ UNCHANGED failure
       \/ /\ Raise(c, i[c], "fetch", "exit_cursor")
          /\ UNCHANGED <<poll, results, i>>
    /\ UNCHANGED <<connector, connect_params, kind, queries, supplied, as_transaction,
                   return_transaction_control_results, returned,
                   connection, cursor, submitted, status, server, invocations>>

\* cursor.execute (lines 279, 486): the statement runs to its end on the
\* server before the call returns, or the call raises
ExecuteSync(c) ==
    /\ pc[c] = "execute"
    /\ submitted' = [submitted EXCEPT ![c] = Append(@, queries[c][i[c]])]
    /\ \/ /\ status' = [status EXCEPT ![c] = Append(@, "success")]
          /\ server' = [server EXCEPT ![c] =
                ApplyStatement(@, queries[c][i[c]], Len(submitted[c]) + 1)]
          /\ poll' = [poll EXCEPT ![c] = NewPoll(Len(submitted'[c]))]
          /\ IF kind[c] = "execute"
             THEN /\ pc' = [pc EXCEPT ![c] = "exit_cursor"]
                  /\ outcome' = [outcome EXCEPT ![c] = "return"]
             ELSE /\ pc' = [pc EXCEPT ![c] = "fetch"]
                  /\ UNCHANGED outcome
          /\ UNCHANGED failure
       \/ /\ status' = [status EXCEPT ![c] = Append(@, "failed")]
          /\ Raise(c, i[c], "submit", "exit_cursor")
          /\ UNCHANGED <<server, poll>>
    /\ UNCHANGED <<connector, connect_params, kind, queries, supplied, as_transaction,
                   return_transaction_control_results, i, results, returned,
                   connection, cursor, invocations>>

\* variant of CloseCursor: the cursor is not a with target and stays open
CloseCursor_Skipped(c) ==
    /\ pc[c] = "exit_cursor"
    /\ pc' = [pc EXCEPT ![c] = "exit_connection"]
    /\ UNCHANGED <<connector, connect_params, kind, queries, supplied, as_transaction,
                   return_transaction_control_results, i, results, returned, outcome,
                   failure, connection, cursor, submitted, status, poll, server,
                   invocations>>

\* the inner with block is left (lines 137, 278, 337, 414, 485): cursor.close()
CloseCursor(c) ==
    /\ pc[c] = "exit_cursor"
    /\ cursor' = [cursor EXCEPT ![c].closes = @ + 1]
    /\ pc' = [pc EXCEPT ![c] = "exit_connection"]
    /\ UNCHANGED <<connector, connect_params, kind, queries, supplied, as_transaction,
                   return_transaction_control_results, i, results, returned, outcome,
                   failure, connection, submitted, status, poll, server, invocations>>

\* the outer with block is left (lines 136, 277, 336, 409, 484):
\* connection.close(); the server ends the session
CloseConnection(c) ==
    /\ pc[c] = "exit_connection"
    /\ connection' = [connection EXCEPT ![c].closes = @ + 1]
    /\ server' = [server EXCEPT ![c] = EndSession(@)]
    /\ pc' = [pc EXCEPT ![c] = IF outcome[c] = "return" THEN "return" ELSE "done"]
    /\ UNCHANGED <<connector, connect_params, kind, queries, supplied, as_transaction,
                   return_transaction_control_results, i, results, returned, outcome,
                   failure, cursor, submitted, status, poll, invocations>>

\* the return statement (lines 183, 221, 257, 346, 428-431, 488; execute
\* returns None)
Return(c) ==
    /\ pc[c] = "return"
    /\ returned' = [returned EXCEPT ![c] =
          [given |-> TRUE,
           value |-> ReturnValue(kind[c], as_transaction[c],
                                 return_transaction_control_results[c], results[c])]]
    /\ pc' = [pc EXCEPT ![c] = "done"]
    /\ UNCHANGED <<connector, connect_params, kind, queries, supplied, as_transaction,
                   return_transaction_control_results, i, results, outcome,
                   failure, connection, cursor, submitted, status, poll, server,
                   invocations>>

\* the caller invokes the same function again with the same list object and
\* the same flags (line 350: queries is passed by reference)
Reinvoke(c) ==
    /\ pc[c] = "done"
    /\ invocations[c] < MaxInvocations
    /\ invocations' = [invocations EXCEPT ![c] = @ + 1]
    /\ supplied' = [supplied EXCEPT ![c] = queries[c]]
    /\ pc' = [pc EXCEPT ![c] = "start"]
    /\ i' = [i EXCEPT ![c] = 1]
    /\ results' = [results EXCEPT ![c] = <<>>]
    /\ returned' = [returned EXCEPT ![c] = NoResult]
    /\ outcome' = [outcome EXCEPT ![c] = "none"]
    /\ failure' = [failure EXCEPT ![c] = NoFailure]
    /\ connection' = [connection EXCEPT ![c] = Unopened]
    /\ cursor' = [cursor EXCEPT ![c] = Unopened]
    /\ submitted' = [submitted EXCEPT ![c] = <<>>]
    /\ status' = [status EXCEPT ![c] = <<>>]
    /\ poll' = [poll EXCEPT ![c] = NewPoll(0)]
    /\ server' = [server EXCEPT ![c] = NewSession]
    /\ UNCHANGED <<connector, connect_params, kind, queries, as_transaction,
                   return_transaction_control_results>>

\* two calls running at the same time, each with its own arguments: a
\* single query beside a transactional snowflake_multiquery or fetch_one
ConcurrentConfigs ==
    [call1 : {cfg \in CallConfigs : cfg.kind \in {"snowflake_query", "snowflake_query_sync"}},
     call2 : {cfg \in CallConfigs :
                \/ cfg.kind = "fetch_one"
                \/ /\ cfg.kind = "snowflake_multiquery"
                   /\ cfg.queries = <<"q1">>
                   /\ cfg.as_transaction
                   /\ ~cfg.ctl}]

InitConcurrent ==
    /\ InitCalls(Calls)
    /\ connector.credentials.authenticator = None
    /\ \E cc \in ConcurrentConfigs :
          \A c \in Calls :
              /\ kind[c] = cc[c].kind
              /\ queries[c] = cc[c].queries
              /\ as_transaction[c] = cc[c].as_transaction
              /\ return_transaction_control_results[c] = cc[c].ctl

Next ==
    \/ \E c \in Calls : GetConnection(c)
    \/ \E c \in Calls : OpenCursor(c)
    \/ \E c \in Calls : Submit(c)
    \/ \E c \in Calls : CheckStatus(c)
    \/ \E c \in Calls : WakeUp(c)
    \/ \E c \in Calls : Cancel(c)
    \/ \E c \in Calls : ServerComplete(c)
    \/ \E c \in Calls : LoadResults(c)
    \/ \E c \in Calls : Fetch(c)
    \/ \E c \in Calls : ExecuteSync(c)
    \/ \E c \in Calls : CloseCursor(c)
    \/ \E c \in Calls : CloseConnection(c)
    \/ \E c \in Calls : Return(c)
    \/ \E c \in Calls : Reinvoke(c)

Spec == Init /\ [][Next]_vars

\* the calls of ConcurrentConfigs, interleaved at every step (a superset of
\* the interleavings at the sleep of line 145 / 343 / 422)
SpecConcurrent == InitConcurrent /\ [][Next]_vars

\* the steps the event loop runs for a call: everything but the cancellation,
\* the server's work and a new invocation by the caller
ClientStep(c) ==
    \/ GetConnection(c)
    \/ OpenCursor(c)
    \/ Submit(c)
    \/ CheckStatus(c)
    \/ WakeUp(c)
    \/ LoadResults(c)
    \/ Fetch(c)
    \/ ExecuteSync(c)
    \/ CloseCursor(c)
    \/ CloseConnection(c)
    \/ Return(c)

\* one call with at most one operation in its list
InitLive ==
    /\ Init
    /\ \A c \in Calls : Len(queries[c]) <= 1

\* the event loop keeps running a call that can take a step: a sleep ends,
\* a driver call returns or raises
SpecLive == InitLive /\ [][Next]_vars /\ \A c \in Calls : WF_vars(ClientStep(c))

(***************************************************************************)
(* The resolution on its own: every credential input, resolved once.       *)
(***************************************************************************)
InitResolve ==
    /\ connector \in ConnectorInputs
    /\ connect_params = NotResolved
    /\ kind = [c \in Calls |-> "fetch_all"]
    /\ queries = [c \in Calls |-> <<"q1">>]
    /\ supplied = [c \in Calls |-> <<"q1">>]
    /\ as_transaction = [c \in Calls |-> FALSE]
    /\ return_transaction_control_results = [c \in Calls |-> FALSE]
    /\ pc = [c \in Calls |-> "absent"]
    /\ i = [c \in Calls |-> 1]
    /\ results = [c \in Calls |-> <<>>]
    /\ returned = [c \in Calls |-> NoResult]
    /\ outcome = [c \in Calls |-> "none"]
    /\ failure = [c \in Calls |-> NoFailure]
    /\ connection = [c \in Calls |-> Unopened]
    /\ cursor = [c \in Calls |-> Unopened]
    /\ submitted = [c \in Calls |-> <<>>]
    /\ status = [c \in Calls |-> <<>>]
    /\ poll = [c \in Calls |-> NewPoll(0)]
    /\ server = [c \in Calls |-> NewSession]
    /\ invocations = [c \in Calls |-> 1]

\* _get_connect_params is evaluated on the connector (line 119)
Resolve ==
    /\ connect_params = NotResolved
    /\ connect_params' = get_connect_params(connector)
    /\ UNCHANGED connector
    /\ UNCHANGED callVars

NextResolve == Resolve

SpecResolve == InitResolve /\ [][NextResolve]_vars

(***************************************************************************)
(* Properties of snowflake_multiquery.                                     *)
(***************************************************************************)
IsMultiquery(c) == kind[c] = "snowflake_multiquery"

Strips(c) == as_transaction[c] /\ ~return_transaction_control_results[c]

\* the statements an invocation is to submit, given the list it was handed
Statements(c) ==
    IF IsMultiquery(c) /\ as_transaction[c]
    THEN Bracket(supplied[c])
    ELSE supplied[c]

\* C1: a snowflake_multiquery call with as_transaction and without
\* return_transaction_control_results that returns hands back exactly one
\* result set per caller-supplied operation, the j-th being the rows of the
\* j-th supplied operation (query id j + 1, after BEGIN); the result sets of
\* BEGIN and COMMIT are not in it.
C1_StrippedResults ==
    \A c \in Calls :
        (IsMultiquery(c) /\ Strips(c) /\ returned[c].given) =>
            /\ Len(returned[c].value) = Len(supplied[c])
            /\ \A j \in 1..Len(supplied[c]) :
                  returned[c].value[j] = ResultSet(c, j + 1, supplied[c][j], "fetchall")

C1_Witness ==
    \E c \in Calls :
        /\ IsMultiquery(c) /\ Strips(c) /\ returned[c].given
        /\ invocations[c] = 1
        /\ supplied[c] = <<"q1", "q2">>

\* C2: a snowflake_multiquery call that does not strip and returns hands back
\* one result set per submitted statement in submission order: BEGIN, the N
\* supplied operations, COMMIT (N + 2) with as_transaction, the N supplied
\* operations without.
C2_UnstrippedResults ==
    \A c \in Calls :
        (IsMultiquery(c) /\ ~Strips(c) /\ returned[c].given) =>
            /\ Len(returned[c].value) =
                  Len(supplied[c]) + (IF as_transaction[c] THEN 2 ELSE 0)
            /\ submitted[c] = Statements(c)
            /\ \A j \in 1..Len(Statements(c)) :
                  returned[c].value[j] = ResultSet(c, j, Statements(c)[j], "fetchall")

C2_Witness ==
    \E c \in Calls :
        /\ IsMultiquery(c) /\ returned[c].given
        /\ as_transaction[c] /\ return_transaction_control_results[c]
        /\ invocations[c] = 1
        /\ supplied[c] = <<"q1", "q2">>
        /\ Len(returned[c].value) = 4

\* C3: once the statement at position k of a snowflake_multiquery call has
\* failed at submission or at a status check, the statements handed to the
\* cursor are exactly the first k of the sequence (nothing after position k,
\* no COMMIT after it, no ROLLBACK), nothing is returned, and the call ends
\* with the error.
C3_FailureStopsSequence ==
    \A c \in Calls :
        (IsMultiquery(c) /\ failure[c].phase \in {"submit", "status"}) =>
            /\ submitted[c] = SubSeq(Statements(c), 1, failure[c].at)
            /\ "ROLLBACK" \notin {submitted[c][j] : j \in 1..Len(submitted[c])}
            /\ ~returned[c].given
            /\ outcome[c] = "error"
            /\ pc[c] \in {"exit_cursor", "exit_connection", "done"}

C3_Witness ==
    \E c \in Calls :
        /\ IsMultiquery(c) /\ ~as_transaction[c]
        /\ Len(supplied[c]) = 3
        /\ failure[c] = [at |-> 2, phase |-> "status"]
        /\ pc[c] = "done"

\* C4: a snowflake_multiquery call with as_transaction that ended with an
\* error or a cancellation has left no effect of its operations committed
\* on the server.
C4_NoCommitAfterFailure ==
    \A c \in Calls :
        (IsMultiquery(c) /\ as_transaction[c] /\ pc[c] = "done"
            /\ outcome[c] \in {"error", "cancelled"}) =>
            server[c].committed = {}

(***************************************************************************)
(* Properties of the poll loop.                                            *)
(***************************************************************************)
\* C5: in the poll loop, checks and suspensions alternate: while a sleep is
\* pending there is one more check than completed sleeps, at the loop head
\* as many; when the results of a query id are loaded and fetched, the
\* running answers (k) equal the suspensions, the checks are k + 1, and the
\* last check saw the query finished.
C5_PollCounts ==
    \A c \in Calls :
        kind[c] \in AsyncKinds =>
            /\ pc[c] = "check" => /\ poll[c].checks = poll[c].sleeps
                                  /\ poll[c].running = poll[c].checks
            /\ pc[c] = "sleep" => /\ poll[c].checks = poll[c].sleeps + 1
                                  /\ poll[c].running = poll[c].checks
            /\ (pc[c] \in {"load", "fetch"} \/ poll[c].loads > 0 \/ poll[c].fetches > 0) =>
                  /\ poll[c].sleeps = poll[c].running
                  /\ poll[c].checks = poll[c].running + 1
                  /\ status[c][poll[c].query_id] = "success"

C5_Witness ==
    \E c \in Calls :
        /\ kind[c] = "snowflake_query"
        /\ poll[c].fetches = 1
        /\ poll[c].running = 2
        /\ poll[c].sleeps = 2
        /\ poll[c].checks = 3

\* C6: after a cancellation delivered during the sleep, the call makes no
\* further status check (the checks stay one ahead of the completed sleeps),
\* never loads or fetches the results of that query id, returns nothing, and
\* ends with the cursor and the connection closed and the cancellation as
\* its outcome.
C6_CancelDuringSleep ==
    \A c \in Calls :
        outcome[c] = "cancelled" =>
            /\ pc[c] \in {"exit_cursor", "exit_connection", "done"}
            /\ poll[c].checks = poll[c].sleeps + 1
            /\ poll[c].loads = 0
            /\ poll[c].fetches = 0
            /\ ~returned[c].given
            /\ pc[c] = "done" => /\ cursor[c].closes = 1
                                 /\ connection[c].closes = 1

C6_Witness ==
    \E c \in Calls :
        /\ outcome[c] = "cancelled"
        /\ pc[c] = "done"
        /\ IsMultiquery(c)
        /\ Len(results[c]) = 1
        /\ poll[c].sleeps = 1

(***************************************************************************)
(* Resource release.                                                       *)
(***************************************************************************)
\* C7: a call opens at most one connection, never closes it more often than
\* it opened it, and when the call has ended (by return, error or
\* cancellation) the connection it opened has been closed exactly once.
C7_ConnectionClosedOnce ==
    \A c \in Calls :
        /\ connection[c].opens <= 1
        /\ connection[c].closes <= connection[c].opens
        /\ pc[c] \in {"return", "done"} => connection[c].closes = connection[c].opens
        /\ pc[c] \in {"connected", "submit", "execute", "check", "sleep", "load",
                      "fetch", "exit_cursor", "exit_connection"} =>
              (connection[c].opens = 1 /\ connection[c].closes = 0)

C7_Witness ==
    \E c \in Calls :
        /\ pc[c] = "done"
        /\ failure[c].phase = "fetch"
        /\ connection[c].opens = 1
        /\ connection[c].closes = 1

(***************************************************************************)
(* Properties of _get_connect_params.                                      *)
(***************************************************************************)
Populated(cr) == {f \in SecretParams : cr[f] # None}

\* C8: if resolve_private_key returns a key, the mapping returned by
\* _get_connect_params holds that key under private_key and has no password.
C8_KeySupersedesPassword ==
    (connect_params.ok /\ resolve_private_key(connector.credentials) # None) =>
        /\ "private_key" \in DOMAIN connect_params.params
        /\ connect_params.params["private_key"] =
              resolve_private_key(connector.credentials)
        /\ "password" \notin DOMAIN connect_params.params

C8_Witness ==
    /\ connect_params.ok
    /\ connector.credentials.private_key # None
    /\ connector.credentials.password # None
    /\ "password" \notin DOMAIN connect_params.params

\* C9: with exactly one of password, private_key and token populated, the
\* returned mapping holds that one field and neither of the other two, and
\* its value is the content of the secret and no longer a secret handle.
C9_AuthModeExclusive ==
    \A f \in SecretParams :
        (connect_params.ok /\ Populated(connector.credentials) = {f}) =>
            /\ DOMAIN connect_params.params \cap SecretParams = {f}
            /\ connect_params.params[f].form # "secret"
            /\ connect_params.params[f].v = connector.credentials[f].v

C9_Witness ==
    /\ connect_params.ok
    /\ Populated(connector.credentials) = {"token"}
    /\ connect_params.params["token"] = Plain("token")

\* C10: the mapping returned by _get_connect_params has no key whose value
\* is None, and every credential field that is None in the input is absent.
C10_NoNullLeak ==
    connect_params.ok =>
        /\ \A k \in DOMAIN connect_params.params : connect_params.params[k] # None
        /\ \A f \in DOMAIN connector.credentials :
              (connector.credentials[f] = None /\ f # "private_key") =>
                  f \notin DOMAIN connect_params.params

C10_Witness ==
    /\ connect_params.ok
    /\ connector.credentials.role = None
    /\ connector.credentials.password = None
    /\ connector.credentials.authenticator = Plain("okta_endpoint")
    /\ connector.credentials.private_key # None


\* _get_connect_params has been evaluated (it returned or raised)
Resolved == connect_params # NotResolved

UsesOktaSentinel(cr) == cr.authenticator = Plain("okta_endpoint")

\* C11 as stated: for every input whose authenticator is "okta_endpoint",
\* also one without an endpoint, _get_connect_params returns a mapping whose
\* authenticator is the endpoint URL and which has no okta_endpoint field.
C11_AlwaysSubstituted ==
    (Resolved /\ UsesOktaSentinel(connector.credentials)) =>
        /\ connect_params.ok
        /\ "authenticator" \in DOMAIN connect_params.params
        /\ connect_params.params["authenticator"] # Plain("okta_endpoint")
        /\ "okta_endpoint" \notin DOMAIN connect_params.params

\* C11 (amended): with authenticator "okta_endpoint" and the endpoint set,
\* the returned mapping has the endpoint URL as authenticator and no
\* okta_endpoint field; with the endpoint unset, the pop raises and no mapping
\* is returned.
C11_OktaSubstitution ==
    (Resolved /\ UsesOktaSentinel(connector.credentials)) =>
        IF connector.credentials.okta_endpoint # None
        THEN /\ connect_params.ok
             /\ "authenticator" \in DOMAIN connect_params.params
             /\ connect_params.params["authenticator"] =
                   connector.credentials.okta_endpoint
             /\ "okta_endpoint" \notin DOMAIN connect_params.params
        ELSE ~connect_params.ok

C11_Witness ==
    /\ Resolved
    /\ UsesOktaSentinel(connector.credentials)
    /\ connector.credentials.okta_endpoint = Plain("https://okta.example")
    /\ connect_params.ok
    /\ connect_params.params["authenticator"] = Plain("https://okta.example")


\* C20: the mapping returned by _get_connect_params holds at most one of the
\* fields password, private_key and token, whichever of them the credentials
\* populate.
C20_AtMostOneSecret ==
    connect_params.ok =>
        Cardinality(DOMAIN connect_params.params \cap SecretParams) <= 1


\* C12: when a snowflake_multiquery call has ended, by return or by failure,
\* the list object the caller passed holds the operations it held when the
\* call began.
C12_ListUnchanged ==
    \A c \in Calls :
        (IsMultiquery(c) /\ pc[c] = "done") => queries[c] = supplied[c]

ControlStatements == {BEGIN_TRANSACTION_STATEMENT, END_TRANSACTION_STATEMENT}

\* the positions of a sequence that hold a BEGIN or COMMIT statement
ControlPositions(s) == {j \in 1..Len(s) : s[j] \in ControlStatements}

\* C13: a snowflake_multiquery call in which every statement succeeded has
\* submitted the supplied operations in order, each once, between one BEGIN
\* TRANSACTION and one COMMIT with as_transaction and with nothing added
\* without; for a list of plain operations the only BEGIN and COMMIT are the
\* first and the last statement, and there is none without as_transaction.
C13_SubmittedStatements ==
    \A c \in Calls :
        (IsMultiquery(c) /\ outcome[c] = "return") =>
            /\ submitted[c] =
                  IF as_transaction[c]
                  THEN <<BEGIN_TRANSACTION_STATEMENT>> \o supplied[c]
                          \o <<END_TRANSACTION_STATEMENT>>
                  ELSE supplied[c]
            /\ \A n \in 1..Len(status[c]) : status[c][n] = "success"
            /\ ControlPositions(supplied[c]) = {} =>
                  ControlPositions(submitted[c]) =
                      IF as_transaction[c] THEN {1, Len(submitted[c])} ELSE {}

C13_Witness ==
    \E c \in Calls :
        /\ IsMultiquery(c) /\ outcome[c] = "return" /\ pc[c] = "done"
        /\ as_transaction[c]
        /\ submitted[c] = <<BEGIN_TRANSACTION_STATEMENT, "q1", "q2",
                            END_TRANSACTION_STATEMENT>>


ExitPositions == {"exit_cursor", "exit_connection", "done"}

\* C14: once a status check has raised, the call is on its way out with the
\* error: the raising check was the last one (k running answers, k sleeps,
\* k + 1 checks), the results of that query id are neither loaded nor
\* fetched, and nothing is returned.
C14_StatusErrorPropagates ==
    \A c \in Calls :
        failure[c].phase = "status" =>
            /\ pc[c] \in ExitPositions
            /\ outcome[c] = "error"
            /\ status[c][poll[c].query_id] = "failed"
            /\ poll[c].checks = poll[c].running + 1
            /\ poll[c].sleeps = poll[c].running
            /\ poll[c].loads = 0
            /\ poll[c].fetches = 0
            /\ ~returned[c].given

C14_Witness ==
    \E c \in Calls :
        /\ kind[c] = "fetch_all"
        /\ failure[c] = [at |-> 1, phase |-> "status"]
        /\ poll[c].sleeps = 1
        /\ pc[c] = "done"

IsOpen(r) == r.opens > r.closes

\* the positions at which the body uses the cursor or the connection
WorkPositions == {"submit", "execute", "check", "sleep", "load", "fetch"}

\* C15: the cursor is opened on an open connection and closed before it:
\* an open cursor implies an open connection, a closed connection implies
\* that the cursor it created is closed, and every submit, status check,
\* load and fetch happens with both still open.
C15_ConnectionOutlivesCursor ==
    \A c \in Calls :
        /\ cursor[c].opens <= connection[c].opens
        /\ cursor[c].closes <= cursor[c].opens
        /\ IsOpen(cursor[c]) => IsOpen(connection[c])
        /\ connection[c].closes > 0 => ~IsOpen(cursor[c])
        /\ pc[c] \in WorkPositions => (IsOpen(cursor[c]) /\ IsOpen(connection[c]))

C15_Witness ==
    \E c \in Calls :
        /\ kind[c] = "fetch_one"
        /\ pc[c] = "fetch"
        /\ poll[c].loads = 1
        /\ IsOpen(cursor[c])
        /\ IsOpen(connection[c])

\* the query ids of a call that the server is still running
Running(c) == {n \in 1..Len(status[c]) : status[c][n] = "running"}

\* C16: in a snowflake_multiquery call at most one submitted statement is
\* without its fetched result, it is the last one submitted, and every
\* earlier statement has finished on the server and has its rows in results.
C16_StrictlySequential ==
    \A c \in Calls :
        IsMultiquery(c) =>
            /\ Cardinality(Running(c)) <= 1
            /\ Running(c) \subseteq {Len(submitted[c])}
            /\ Len(submitted[c]) - Len(results[c]) \in {0, 1}
            /\ \A n \in 1..Len(results[c]) :
                  /\ status[c][n] = "success"
                  /\ results[c][n].qid = n

C16_Witness ==
    \E c \in Calls :
        /\ IsMultiquery(c)
        /\ Len(submitted[c]) = 3
        /\ Len(results[c]) = 2
        /\ Running(c) = {3}
        /\ pc[c] = "sleep"

\* C17: a snowflake_multiquery call never opens a second connection or a
\* second cursor; whenever a statement has been submitted, and when the call
\* has returned, exactly one of each has been opened, whatever the number of
\* statements.
C17_OneConnectionOneCursor ==
    \A c \in Calls :
        IsMultiquery(c) =>
            /\ connection[c].opens <= 1
            /\ cursor[c].opens <= 1
            /\ (Len(submitted[c]) > 0 \/ outcome[c] = "return") =>
                  (connection[c].opens = 1 /\ cursor[c].opens = 1)

C17_Witness ==
    \E c \in Calls :
        /\ IsMultiquery(c)
        /\ pc[c] = "done" /\ outcome[c] = "return"
        /\ Len(submitted[c]) = 5
        /\ connection[c].opens = 1
        /\ cursor[c].opens = 1


(***************************************************************************)
(* Concurrent calls.                                                       *)
(***************************************************************************)
\* C18: under every interleaving of two calls, the calls hold different
\* connection objects, a call's cursor belongs to its own connection, the
\* result sets it collects and returns were fetched for its own query ids on
\* that cursor, and while a call is at work its own connection and cursor
\* are open whatever the other call has closed.
C18_OwnConnectionAndCursor ==
    /\ \A c, d \in Calls :
          (c # d /\ connection[c].opens > 0 /\ connection[d].opens > 0) =>
              connection[c].session # connection[d].session
    /\ \A c \in Calls :
          /\ cursor[c].opens > 0 => cursor[c].session = connection[c].session
          /\ connection[c].opens > 0 =>
                connection[c].session = NewConnection(c, invocations[c])
          /\ pc[c] \in WorkPositions => (IsOpen(connection[c]) /\ IsOpen(cursor[c]))
          /\ \A j \in 1..Len(results[c]) :
                /\ results[c][j].call = c
                /\ results[c][j].session = connection[c].session
                /\ results[c][j].qid \in 1..Len(submitted[c])
                /\ results[c][j].stmt = submitted[c][results[c][j].qid]
          /\ returned[c].given =>
                \A j \in 1..Len(returned[c].value) :
                    /\ returned[c].value[j].call = c
                    /\ returned[c].value[j].session = connection[c].session

C18_Witness ==
    /\ pc["call1"] = "sleep"
    /\ kind["call1"] = "snowflake_query"
    /\ pc["call2"] = "done"
    /\ kind["call2"] = "snowflake_multiquery"
    /\ returned["call2"].given
    /\ connection["call2"].closes = 1
    /\ IsOpen(connection["call1"])


(***************************************************************************)
(* Termination of the poll loop.                                           *)
(***************************************************************************)
InLoop(c) == pc[c] \in {"check", "sleep"}

\* the status of the query id the loop is polling
Polled(c) == status[c][poll[c].query_id]

\* a step that takes a call out of its poll loop does so for one of three
\* reasons, and inside the loop a check that sees "running" is followed by
\* the sleep and a sleep by the next check
LoopStep ==
    \A c \in Calls :
        /\ (InLoop(c) /\ ~InLoop(c)') =>
              \/ pc[c] = "check" /\ Polled(c) = "success" /\ pc'[c] = "load"
              \/ pc[c] = "check" /\ Polled(c) = "failed" /\ failure'[c].phase = "status"
              \/ pc[c] = "sleep" /\ outcome'[c] = "cancelled"
        /\ (pc[c] = "check" /\ pc'[c] = "sleep") => Polled(c) = "running"
        /\ (pc[c] = "check" /\ Polled(c) = "running" /\ pc'[c] # pc[c]) => pc'[c] = "sleep"
        /\ (pc[c] = "sleep" /\ pc'[c] # pc[c]) =>
              (pc'[c] = "check" \/ outcome'[c] = "cancelled")

\* C19: the poll loop is left only on a non-running status, on a raising
\* status check or on cancellation, it alternates check and sleep while the
\* status is "running" for as many rounds as that lasts, and once the server
\* reports a terminal status for the polled query id the loop is left; a
\* call with a single statement then comes to its end (snowflake_multiquery
\* goes on to the loop of its next statement).
C19_LoopRunsUntilTerminal ==
    /\ [][LoopStep]_vars
    /\ \A c \in Calls : (InLoop(c) /\ Polled(c) # "running") ~> ~InLoop(c)
    /\ \A c \in Calls :
          (InLoop(c) /\ Polled(c) # "running" /\ ~IsMultiquery(c)) ~> (pc[c] = "done")

C19_Witness ==
    \E c \in Calls :
        /\ kind[c] = "snowflake_query"
        /\ poll[c].running = MaxPolls
        /\ poll[c].sleeps = MaxPolls
        /\ pc[c] = "done"
        /\ outcome[c] = "return"

====
